---- MODULE Spec2Model ----
(***************************************************************************)
(* Model of the PCTD detection scripts:                                    *)
(*   - VCDAnalyzer  (src/Scripts/extract_transitions.py): the line-by-line *)
(*     decoder of a value-change dump and its transition counters;         *)
(*   - PCTDDetector (src/Scripts/PCTD_improved.py): the percentile         *)
(*     threshold, the suspicious list and the ranked trojan candidates.    *)
(*                                                                         *)
(* Python strings are sequences of one-character strings, so that strip,   *)
(* split, startswith, slicing and the substring test `a in b` are computed *)
(* as Python computes them.  Python's None is the empty tuple and a        *)
(* present value v is <<v>>.  Python floats are exact rationals <<n, d>>   *)
(* in lowest terms with d > 0.                                             *)
(***************************************************************************)
EXTENDS Integers, Sequences, FiniteSets, TLC

\* ------------------------------------------------------------------------
\* Bounds of the model
\* ------------------------------------------------------------------------

\* number of lines of the trace file the decoder reads in one run
MaxLines == 6

\* number of signals in a transition artifact the detector loads
MaxSignals == 3

\* number of times the scorer is run on one detector object
MaxRuns == 2

\* ------------------------------------------------------------------------
\* Python values
\* ------------------------------------------------------------------------

None == <<>>

Some(v) == <<v>>

IsNone(o) == o = <<>>

Get(o) == o[1]

\* ------------------------------------------------------------------------
\* Python string operations
\* ------------------------------------------------------------------------

Whitespace == {" ", "\t"}

Digits == {"0", "1", "2", "3", "4", "5", "6", "7", "8", "9"}

DigitValue(c) ==
    CASE c = "0" -> 0 [] c = "1" -> 1 [] c = "2" -> 2 [] c = "3" -> 3
      [] c = "4" -> 4 [] c = "5" -> 5 [] c = "6" -> 6 [] c = "7" -> 7
      [] c = "8" -> 8 [] c = "9" -> 9

\* s[i:] with a 0-based Python index i >= 0
From(s, i) == SubSeq(s, i + 1, Len(s))

\* s.startswith(p)
StartsWith(s, p) == Len(s) >= Len(p) /\ SubSeq(s, 1, Len(p)) = p

\* the substring test `p in s`
Contains(s, p) ==
    \E i \in 0..(Len(s) - Len(p)) : SubSeq(s, i + 1, i + Len(p)) = p

RECURSIVE LStrip(_)
LStrip(s) ==
    IF s # <<>> /\ Head(s) \in Whitespace THEN LStrip(Tail(s)) ELSE s

RECURSIVE RStrip(_)
RStrip(s) ==
    IF s # <<>> /\ s[Len(s)] \in Whitespace
    THEN RStrip(SubSeq(s, 1, Len(s) - 1))
    ELSE s

\* s.strip()
Strip(s) == RStrip(LStrip(s))

\* length of the longest prefix of s whose characters are all in cls (Span),
\* or all outside cls (SpanNot)
RECURSIVE Span(_, _)
Span(s, cls) ==
    IF s # <<>> /\ Head(s) \in cls THEN 1 + Span(Tail(s), cls) ELSE 0

\* s.split(): the maximal runs of non-whitespace characters
RECURSIVE SpanNot(_, _)
SpanNot(s, cls) ==
    IF s # <<>> /\ Head(s) \notin cls THEN 1 + SpanNot(Tail(s), cls) ELSE 0

RECURSIVE Split(_)
Split(s) ==
    LET t == LStrip(s)
        n == SpanNot(t, Whitespace)
    IN  IF t = <<>> THEN <<>>
        ELSE <<SubSeq(t, 1, n)>> \o Split(From(t, n))

RECURSIVE DigitsValue(_, _)
DigitsValue(s, acc) ==
    IF s = <<>> THEN acc
    ELSE DigitsValue(Tail(s), 10 * acc + DigitValue(Head(s)))

\* int(s): Some(n), or None where Python raises ValueError.  int() strips
\* whitespace and accepts one sign before a non-empty run of digits.
ParseInt(s) ==
    LET t == Strip(s)
        signed == t # <<>> /\ Head(t) \in {"+", "-"}
        d == IF signed THEN Tail(t) ELSE t
    IN  IF d = <<>> \/ Span(d, Digits) # Len(d) THEN None
        ELSE IF signed /\ Head(t) = "-" THEN Some(0 - DigitsValue(d, 0))
        ELSE Some(DigitsValue(d, 0))

Max(a, b) == IF a >= b THEN a ELSE b

Min(a, b) == IF a <= b THEN a ELSE b

\* ------------------------------------------------------------------------
\* Python floats, as exact rationals <<n, d>> in lowest terms with d > 0
\* ------------------------------------------------------------------------

Abs(n) == IF n < 0 THEN 0 - n ELSE n

RECURSIVE Gcd(_, _)
Gcd(a, b) == IF b = 0 THEN a ELSE Gcd(b, a % b)

\* n / d for integers n and d # 0
Rat(n, d) ==
    LET g == Gcd(Abs(n), Abs(d))
        sg == IF d < 0 THEN 0 - 1 ELSE 1
    IN  <<(sg * n) \div g, (sg * d) \div g>>

RatOfInt(n) == <<n, 1>>

RatDiv(a, b) == Rat(a[1] * b[2], a[2] * b[1])

RatMul(a, b) == Rat(a[1] * b[1], a[2] * b[2])

RatSub(a, b) == Rat(a[1] * b[2] - b[1] * a[2], a[2] * b[2])

RatLess(a, b) == a[1] * b[2] < b[1] * a[2]

RatIsZero(a) == a[1] = 0

\* words joined by single blanks
RECURSIVE Join(_)
Join(ws) ==
    IF ws = <<>> THEN <<>>
    ELSE IF Len(ws) = 1 THEN ws[1]
    ELSE ws[1] \o <<" ">> \o Join(Tail(ws))

\* ------------------------------------------------------------------------
\* The trace file: the raw lines the decoder may read
\* ------------------------------------------------------------------------

KwTimescale == <<"$", "t", "i", "m", "e", "s", "c", "a", "l", "e">>

KwVar == <<"$", "v", "a", "r">>

KwEnd == <<"$", "e", "n", "d">>

KwWire == <<"w", "i", "r", "e">>

\* signal codes and signal names used by the trace
CodeA == <<"!">>

CodeB == <<"%">>

NameQ == <<"d", "_", "q">>

NameW == <<"w">>

DefaultTimescale == <<"1", "n", "s">>

TimescaleLines ==
    { Join(<<KwTimescale, <<"1", "u", "s">>, KwEnd>>),      \* $timescale 1us $end
      KwTimescale,                                          \* $timescale
      Join(<<KwTimescale, KwEnd>>),                         \* $timescale $end
      KwTimescale \o <<"1", "0", "p", "s">> }               \* $timescale10ps

VarLines ==
    { Join(<<KwVar, KwWire, <<"1">>, CodeA, NameQ, KwEnd>>),            \* $var wire 1 ! d_q $end
      Join(<<KwVar, KwWire, <<"1">>, CodeA, NameW>>),                   \* $var wire 1 ! w
      Join(<<KwVar, KwWire, <<"2">>, CodeB, NameQ,
             <<"[", "1", ":", "0", "]">>, KwEnd>>),                     \* $var wire 2 % d_q [1:0] $end
      Join(<<KwVar, KwWire, <<"1">>, CodeB>>) }                         \* $var wire 1 %

TimestampLines ==
    { <<"#", "5">>, <<"#", "3">>, <<"#", "-", "2">>, <<"#", "x">> }

ScalarLines ==
    { <<"0", "!">>, <<"1", "!">>, <<"x", "!">>, <<"1", "%">>,
      <<"0", "?">>,                                         \* a code never declared
      <<" ", "0", "!">>,                                    \* leading blank
      <<"1">> }                                             \* a value and no code

VectorLines ==
    { <<"b", "0", "0", " ", "%">>, <<"b", "0", "1", " ", "%">>,
      <<"b", "0", "x", " ", "%">>, <<"b", "0", "1", " ", "!">>,
      <<"b", "0", "1">> }                                   \* a value and no code

RealLines ==
    { <<"r", "1", ".", "5", " ", "%">>, <<"r", "2", " ", "%">> }

OtherLines ==
    { <<>>, <<" ">>, KwEnd, <<"$", "d", "u", "m", "p", "v", "a", "r", "s">> }

VcdLines ==
    TimescaleLines \cup VarLines \cup TimestampLines \cup ScalarLines
        \cup VectorLines \cup RealLines \cup OtherLines

\* the stripped form and the tokens of every line of the alphabet
StrippedLine == [raw \in VcdLines |-> Strip(raw)]

TokensOf == [line \in {Strip(raw) : raw \in VcdLines} |-> Split(line)]

\* ------------------------------------------------------------------------
\* State
\* ------------------------------------------------------------------------

VARIABLES
    \* VCDAnalyzer
    vcd_pc,             \* "new", "parsing", "parsed", "unreadable",
                        \* "reported", "saved"
    signals,            \* code -> [name, type, size, last_value]
    transitions,        \* name -> count; a name has a key once it was counted
    signal_values,      \* name -> number of retained (time, value) entries
    timescale,
    simulation_time,
    in_dump_section,    \* locals of parse_vcd
    current_time,
    line_num,
    \* history of the counted changes, kept per signal code
    tally,              \* code -> number of counted changes addressed to it
    \* history of the timestamps parsed
    stamps              \* the set of the values int(line[1:]) has returned

vcd_vars ==
    <<vcd_pc, signals, transitions, signal_values, timescale, simulation_time,
      in_dump_section, current_time, line_num, tally, stamps>>

VARIABLES
    \* VCDAnalyzer: what generate_report and save_json produce
    open_failed,        \* open() raised in parse_vcd
    frequencies,        \* name -> frequency, as last returned; None before
    dff_signals,        \* name -> frequency of the names taken for registers
    stats,              \* the aggregates of generate_report; None when absent
    all_data,           \* the object written to all_signals_file
    dff_data            \* the object written to dff_signals_file

rep_vars == <<open_failed, frequencies, dff_signals, stats, all_data, dff_data>>

VARIABLES
    \* PCTDDetector
    det_pc,             \* "new", "loaded", "parsed", "identified", "analyzed",
                        \* "reported"; "exit" after sys.exit(1); the name
                        \* after an exception left a method
    threshold_percentile,
    transition_data,    \* the loaded mapping, in file order: <<[name, count]>>
    avg_transitions,    \* None while the attribute is not set
    max_transitions,
    min_transitions,
    dff_list,
    threshold_index,    \* locals of identify_suspicious_signals
    threshold,
    suspicious_signals,
    trojan_candidates,
    runs,               \* how often the scorer ran on this object
    first_candidates    \* the candidate list the first run produced

det_vars ==
    <<det_pc, threshold_percentile, transition_data, avg_transitions,
      max_transitions, min_transitions, dff_list, threshold_index, threshold,
      suspicious_signals, trojan_candidates, runs, first_candidates>>

vars == <<vcd_vars, rep_vars, det_vars>>

EmptyDict == [k \in {} |-> 0]

\* d[k] = v, adding the key when it is new
Put(d, k, v) == [x \in DOMAIN d \cup {k} |-> IF x = k THEN v ELSE d[x]]

\* d[k] += 2
IncrByTwo(d, k) == Put(d, k, IF k \in DOMAIN d THEN d[k] + 2 ELSE 2)

\* d[k] += 1 on a defaultdict(int)
Incr(d, k) == Put(d, k, IF k \in DOMAIN d THEN d[k] + 1 ELSE 1)

\* d.get(k, 0)
GetOr0(d, k) == IF k \in DOMAIN d THEN d[k] ELSE 0

VcdInit ==
    /\ vcd_pc = "new"
    /\ signals = EmptyDict
    /\ transitions = EmptyDict
    /\ signal_values = EmptyDict
    /\ timescale = DefaultTimescale
    /\ simulation_time = 0
    /\ in_dump_section = FALSE
    /\ current_time = 0
    /\ line_num = 0
    /\ tally = EmptyDict
    /\ stamps = {}
    /\ open_failed = FALSE
    /\ frequencies = None
    /\ dff_signals = None
    /\ stats = None
    /\ all_data = None
    /\ dff_data = None

DefaultPercentile == 10

DetInit ==
    /\ det_pc = "new"
    /\ threshold_percentile = DefaultPercentile
    /\ transition_data = <<>>
    /\ avg_transitions = None
    /\ max_transitions = None
    /\ min_transitions = None
    /\ dff_list = <<>>
    /\ threshold_index = None
    /\ threshold = None
    /\ suspicious_signals = <<>>
    /\ trojan_candidates = <<>>
    /\ runs = 0
    /\ first_candidates = None

Init == VcdInit /\ DetInit

\* ------------------------------------------------------------------------
\* VCDAnalyzer.parse_vcd
\* ------------------------------------------------------------------------

LowerLetters ==
    {"a", "b", "c", "d", "e", "f", "g", "h", "i", "j", "k", "l", "m",
     "n", "o", "p", "q", "r", "s", "t", "u", "v", "w", "x", "y", "z"}

UpperLetters ==
    {"A", "B", "C", "D", "E", "F", "G", "H", "I", "J", "K", "L", "M",
     "N", "O", "P", "Q", "R", "S", "T", "U", "V", "W", "X", "Y", "Z"}

Letters == LowerLetters \cup UpperLetters

\* re.search(r'(\d+\s*[a-z]+)', line, re.IGNORECASE): Some(group 1) of the
\* leftmost match, or None
RECURSIVE SearchUnit(_)
SearchUnit(s) ==
    LET nd == Span(s, Digits)
        ns == Span(From(s, nd), Whitespace)
        nl == Span(From(s, nd + ns), Letters)
    IN  IF s = <<>> THEN None
        ELSE IF nd > 0 /\ nl > 0 THEN Some(SubSeq(s, 1, nd + ns + nl))
        ELSE SearchUnit(Tail(s))

\* the value of self.timescale after a $timescale line
TimescaleAfter(line, old) ==
    LET parts == TokensOf[line]
        match == SearchUnit(line)
    IN  IF Len(parts) >= 2 THEN parts[2]
        ELSE IF ~IsNone(match) THEN Get(match)
        ELSE old

\* the signal table after a $var line
\* a declaration accepted without its name token
SignalsAfterVarFourTokens(line, sigs) ==
    LET parts == TokensOf[line]
    IN  IF Len(parts) >= 4
        THEN Put(sigs, parts[4],
                 [name |-> parts[Len(parts)], type |-> parts[2],
                  size |-> parts[3], last_value |-> None])
        ELSE sigs

SignalsAfterVar(line, sigs) ==
    LET parts == TokensOf[line]
    IN  IF Len(parts) >= 5
        THEN Put(sigs, parts[4],
                 [name |-> parts[5], type |-> parts[2], size |-> parts[3],
                  last_value |-> None])
        ELSE sigs

\* a simulation time that follows the latest timestamp
SimulationTimeAfterLatest(old, t) == t

\* self.simulation_time = max(self.simulation_time, current_time)
SimulationTimeAfter(old, t) == Max(old, t)

Str01 == <<"0", "1">>

Str01xzXZ == <<"0", "1", "x", "z", "X", "Z">>

\* which of the three value-change shapes the handler takes for a line
IsScalarChange(line) == Len(line) >= 2 /\ Contains(Str01xzXZ, <<line[1]>>)

IsVectorChange(line) == ~IsScalarChange(line) /\ StartsWith(line, <<"b">>)

IsRealChange(line) ==
    ~IsScalarChange(line) /\ ~IsVectorChange(line) /\ StartsWith(line, <<"r">>)

\* the value and the signal code a value-change line carries:
\* [value, signal_id], or None when the handler does nothing with the line
ChangeOf(line) ==
    LET parts == TokensOf[line]
    IN  IF IsScalarChange(line)
        THEN Some([value |-> <<line[1]>>, signal_id |-> From(line, 1)])
        ELSE IF (IsVectorChange(line) \/ IsRealChange(line)) /\ Len(parts) >= 2
        THEN Some([value |-> From(parts[1], 1), signal_id |-> parts[2]])
        ELSE None

\* the change of every line of the alphabet
ChangeOfLine == [line \in DOMAIN TokensOf |-> ChangeOf(line)]

\* whether a value change from last_value to value is counted
ScalarCounts(last_value, value) ==
    /\ ~IsNone(last_value)
    /\ Get(last_value) # value
    /\ Contains(Str01, value)
    /\ Contains(Str01, Get(last_value))

\* a vector rule that, like the scalar rule, leaves out indeterminate bits
VectorCountsDeterminate(last_value, value) ==
    /\ ~IsNone(last_value)
    /\ Get(last_value) # value
    /\ ~Contains(value, <<"x">>) /\ ~Contains(value, <<"z">>)
    /\ ~Contains(Get(last_value), <<"x">>) /\ ~Contains(Get(last_value), <<"z">>)

VectorCounts(last_value, value) ==
    /\ ~IsNone(last_value)
    /\ Get(last_value) # value

Counts(line, last_value, value) ==
    IF IsScalarChange(line) THEN ScalarCounts(last_value, value)
    ELSE VectorCounts(last_value, value)

\* the change a value-change line makes: Some(change) when its code is
\* declared, None otherwise
Addressed(line, sigs) ==
    LET ch == ChangeOfLine[line]
    IN  IF ~IsNone(ch) /\ Get(ch).signal_id \in DOMAIN sigs THEN ch ELSE None

\* the three updates of the handler for a change ch = Addressed(line, sigs)
TransitionsAfterChange(line, ch, sigs, trans) ==
    IF ~IsNone(ch)
        /\ Counts(line, sigs[Get(ch).signal_id].last_value, Get(ch).value)
    THEN Incr(trans, sigs[Get(ch).signal_id].name)
    ELSE trans

SignalsAfterChange(ch, sigs) ==
    IF ~IsNone(ch)
    THEN [sigs EXCEPT ![Get(ch).signal_id].last_value = Some(Get(ch).value)]
    ELSE sigs

\* signal_values[name].append(...): scalar and vector changes only
SignalValuesAfterChange(line, ch, sigs, vals) ==
    IF ~IsNone(ch) /\ ~IsRealChange(line)
    THEN Incr(vals, sigs[Get(ch).signal_id].name)
    ELSE vals

\* the branch of the loop body a stripped line takes
IsTimescaleLine(line) == StartsWith(line, KwTimescale)

IsVarLine(line) == ~IsTimescaleLine(line) /\ StartsWith(line, KwVar)

IsTimestampLine(line) ==
    ~IsTimescaleLine(line) /\ ~IsVarLine(line) /\ StartsWith(line, <<"#">>)

\* a value-change branch taken on either side of the first timestamp
IsChangeLineAnywhere(line, dumping) ==
    /\ ~IsTimescaleLine(line) /\ ~IsVarLine(line) /\ ~IsTimestampLine(line)
    /\ line # <<>> /\ ~StartsWith(line, <<"$">>)

IsChangeLine(line, dumping) ==
    /\ ~IsTimescaleLine(line) /\ ~IsVarLine(line) /\ ~IsTimestampLine(line)
    /\ dumping /\ line # <<>> /\ ~StartsWith(line, <<"$">>)

\* ------------------------------------------------------------------------
\* History of the counted changes, kept per signal code: a signal starts at
\* 0 when its code is declared (a declaration that repeats the code under
\* the same name continues the signal), and every value change the handler
\* counts is recorded under the code the line addresses.
\* ------------------------------------------------------------------------

Binary == {<<"0">>, <<"1">>}

TallyAfterVar(line, sigs, t) ==
    LET parts == TokensOf[line]
    IN  IF Len(parts) < 5 THEN t
        ELSE IF parts[4] \in DOMAIN sigs /\ sigs[parts[4]].name = parts[5]
        THEN t
        ELSE Put(t, parts[4], 0)

TallyAfterChange(line, ch, sigs, t) ==
    IF ~IsNone(ch)
        /\ Counts(line, sigs[Get(ch).signal_id].last_value, Get(ch).value)
    THEN [t EXCEPT ![Get(ch).signal_id] = @ + 1]
    ELSE t

\* ------------------------------------------------------------------------
\* parse_vcd as steps: opening the file, one step per line, end of file
\* ------------------------------------------------------------------------

OpenVcd ==
    /\ vcd_pc = "new"
    /\ vcd_pc' = "parsing"
    /\ UNCHANGED <<signals, transitions, signal_values, timescale,
                   simulation_time, in_dump_section, current_time, line_num,
                   tally, stamps>>
    /\ UNCHANGED <<rep_vars, det_vars>>

\* open() raises: the error is printed and parse_vcd returns
OpenVcdFails ==
    /\ vcd_pc = "new"
    /\ vcd_pc' = "unreadable"
    /\ open_failed' = TRUE
    /\ UNCHANGED <<signals, transitions, signal_values, timescale,
                   simulation_time, in_dump_section, current_time, line_num,
                   tally, stamps>>
    /\ UNCHANGED <<frequencies, dff_signals, stats, all_data, dff_data>>
    /\ UNCHANGED det_vars

\* the loop reads one more line
ReadsLine ==
    /\ vcd_pc = "parsing"
    /\ line_num < MaxLines
    /\ line_num' = line_num + 1
    /\ vcd_pc' = vcd_pc
    /\ UNCHANGED <<rep_vars, det_vars>>

\* the loop body on the raw line `raw`, one action per branch
SkipBlankOf(raw) ==
    LET line == StrippedLine[raw]
    IN  /\ ReadsLine
        /\ line = <<>>
        /\ UNCHANGED <<signals, transitions, signal_values, timescale,
                       simulation_time, in_dump_section, current_time,
                       tally, stamps>>

ReadTimescaleOf(raw) ==
    LET line == StrippedLine[raw]
    IN  /\ ReadsLine
        /\ line # <<>>
        /\ IsTimescaleLine(line)
        /\ timescale' = TimescaleAfter(line, timescale)
        /\ UNCHANGED <<signals, transitions, signal_values, simulation_time,
                       in_dump_section, current_time, tally, stamps>>

ReadVarOf(raw) ==
    LET line == StrippedLine[raw]
    IN  /\ ReadsLine
        /\ line # <<>>
        /\ IsVarLine(line)
        /\ signals' = SignalsAfterVar(line, signals)
        /\ tally' = TallyAfterVar(line, signals, tally)
        /\ UNCHANGED <<transitions, signal_values, timescale, simulation_time,
                       in_dump_section, current_time, stamps>>

ReadTimestampOf(raw) ==
    LET line == StrippedLine[raw]
        t == ParseInt(From(line, 1))
    IN  /\ ReadsLine
        /\ line # <<>>
        /\ IsTimestampLine(line)
        /\ IF IsNone(t)
           THEN UNCHANGED <<current_time, simulation_time, in_dump_section,
                            stamps>>
           ELSE /\ current_time' = Get(t)
                /\ simulation_time' = SimulationTimeAfter(simulation_time, Get(t))
                /\ in_dump_section' = TRUE
                /\ stamps' = stamps \cup {Get(t)}
        /\ UNCHANGED <<signals, transitions, signal_values, timescale,
                       tally>>

ReadValueChangeOf(raw) ==
    LET line == StrippedLine[raw]
        ch == Addressed(line, signals)
    IN  /\ ReadsLine
        /\ line # <<>>
        /\ IsChangeLine(line, in_dump_section)
        /\ transitions' = TransitionsAfterChange(line, ch, signals, transitions)
        /\ signals' = SignalsAfterChange(ch, signals)
        /\ signal_values' = SignalValuesAfterChange(line, ch, signals, signal_values)
        /\ tally' = TallyAfterChange(line, ch, signals, tally)
        /\ UNCHANGED <<timescale, simulation_time, in_dump_section, current_time,
                       stamps>>

\* no branch of the loop body takes the line
IgnoreLineOf(raw) ==
    LET line == StrippedLine[raw]
    IN  /\ ReadsLine
        /\ line # <<>>
        /\ ~IsTimescaleLine(line)
        /\ ~IsVarLine(line)
        /\ ~IsTimestampLine(line)
        /\ ~IsChangeLine(line, in_dump_section)
        /\ UNCHANGED <<signals, transitions, signal_values, timescale,
                       simulation_time, in_dump_section, current_time,
                       tally, stamps>>

SkipBlank == \E raw \in VcdLines : SkipBlankOf(raw)

ReadTimescale == \E raw \in VcdLines : ReadTimescaleOf(raw)

ReadVar == \E raw \in VcdLines : ReadVarOf(raw)

ReadTimestamp == \E raw \in VcdLines : ReadTimestampOf(raw)

ReadValueChange == \E raw \in VcdLines : ReadValueChangeOf(raw)

IgnoreLine == \E raw \in VcdLines : IgnoreLineOf(raw)

EndOfFile ==
    /\ vcd_pc = "parsing"
    /\ vcd_pc' = "parsed"
    /\ UNCHANGED <<signals, transitions, signal_values, timescale,
                   simulation_time, in_dump_section, current_time, line_num,
                   tally, stamps>>
    /\ UNCHANGED <<rep_vars, det_vars>>

\* ------------------------------------------------------------------------
\* The transition artifact and the configuration the detector is given
\* ------------------------------------------------------------------------

NameN == <<"n", "1">>

NameS == <<"s", "t", "a", "t", "e">>

DetNames == {NameQ, NameW, NameN, NameS}

\* the counts of an artifact; None is a JSON value that is not a number
CountValues == {0 - 5, 0, 1, 4, 5, 55}

JsonValues == {Some(v) : v \in CountValues} \cup {None}

NamesOf(m) == {m[i].name : i \in 1..Len(m)}

\* the name -> count mappings of at most n entries, in file order
MappingsOfLen(k) ==
    {m \in [1..k -> [name : DetNames, count : JsonValues]] :
        \A i, j \in 1..k : m[i].name = m[j].name => i = j}

Mappings(n) == UNION {MappingsOfLen(k) : k \in 0..n}

\* a JSON object is the sequence of its members in file order: a member
\* [name, count] holds a number or null, a member [name, members] holds an
\* object
KeyFrequencies == <<"f", "r", "e", "q", "u", "e", "n", "c", "i", "e", "s">>

KeyTransitionCounts ==
    <<"t", "r", "a", "n", "s", "i", "t", "i", "o", "n", "_",
      "c", "o", "u", "n", "t", "s">>

\* the frequencies saved next to the counts m (their values are never read)
FrequenciesOf(m) == [i \in 1..Len(m) |-> [name |-> m[i].name, count |-> None]]

\* the artifact save_json writes for the counts m
WrapperOf(m) ==
    << [name |-> KeyFrequencies, members |-> FrequenciesOf(m)],
       [name |-> KeyTransitionCounts, members |-> m] >>

\* the artifact whose top-level object is the mapping m itself
LegacyOf(m) == m

\* the shapes of a readable artifact
Artifacts(n) ==
    {WrapperOf(m) : m \in Mappings(n)} \cup {LegacyOf(m) : m \in Mappings(n)}

\* the values a caller may give to threshold_percentile
Percentiles == {DefaultPercentile, 90, 100}

\* the register names parse_verilog may extract
HintLists == { <<>>, << <<"w", "r">> >> }

\* ------------------------------------------------------------------------
\* PCTDDetector.load_transition_data
\* ------------------------------------------------------------------------

IsNumber(v) == ~IsNone(v)

RECURSIVE NumericCounts(_)
NumericCounts(data) ==
    IF data = <<>> THEN <<>>
    ELSE IF IsNumber(Head(data).count)
    THEN <<Get(Head(data).count)>> \o NumericCounts(Tail(data))
    ELSE NumericCounts(Tail(data))

RECURSIVE Sum(_)
Sum(ns) == IF ns = <<>> THEN 0 ELSE Head(ns) + Sum(Tail(ns))

RECURSIVE MaxOf(_)
MaxOf(ns) == IF Len(ns) = 1 THEN ns[1] ELSE Max(Head(ns), MaxOf(Tail(ns)))

RECURSIVE MinOf(_)
MinOf(ns) == IF Len(ns) = 1 THEN ns[1] ELSE Min(Head(ns), MinOf(Tail(ns)))

\* sum(counts) / len(counts)
Average(counts) == Rat(Sum(counts), Len(counts))

\* the mapping the loader keeps from the parsed file
\* 'transition_counts' in data
HasKey(data, key) == \E i \in 1..Len(data) : data[i].name = key

\* data['transition_counts']
Member(data, key) == data[CHOOSE i \in 1..Len(data) : data[i].name = key]

\* the format is always taken for the legacy one
LoadedMappingLegacyOnly(data) == [members |-> data]

\* what self.transition_data is set to: an object [members |-> m], or the
\* number or null [count |-> v] found under the key
LoadedMapping(data) ==
    IF HasKey(data, KeyTransitionCounts)
    THEN Member(data, KeyTransitionCounts)
    ELSE [members |-> data]

\* ------------------------------------------------------------------------
\* PCTDDetector.identify_suspicious_signals
\* ------------------------------------------------------------------------

RECURSIVE PositiveCounts(_)
PositiveCounts(data) ==
    IF data = <<>> THEN <<>>
    ELSE IF IsNumber(Head(data).count) /\ Get(Head(data).count) > 0
    THEN <<Get(Head(data).count)>> \o PositiveCounts(Tail(data))
    ELSE PositiveCounts(Tail(data))

RECURSIVE InsertInt(_, _)
InsertInt(sorted, x) ==
    IF sorted = <<>> THEN <<x>>
    ELSE IF x < Head(sorted) THEN <<x>> \o sorted
    ELSE <<Head(sorted)>> \o InsertInt(Tail(sorted), x)

\* sorted(counts)
RECURSIVE Sorted(_)
Sorted(ns) ==
    IF ns = <<>> THEN <<>>
    ELSE InsertInt(Sorted(SubSeq(ns, 1, Len(ns) - 1)), ns[Len(ns)])

\* max(0, int(n * p / 100))
ThresholdIndex(n, p) == Max(0, (n * p) \div 100)

\* a test that takes the threshold itself for suspicious
IsSuspiciousInclusive(count, thr) ==
    IsNumber(count) /\ Get(count) <= thr /\ Get(count) > 0

\* the test of the loop over transition_data
IsSuspicious(count, thr) ==
    IsNumber(count) /\ Get(count) < thr /\ Get(count) > 0

\* a score relative to the average, without the complement
SuspicionScoreRatio(count, avg) == RatDiv(RatOfInt(count), avg)

\* 1.0 - (count / avg)
SuspicionScore(count, avg) ==
    RatSub(RatOfInt(1), RatDiv(RatOfInt(count), avg))

\* (count / avg * 100) if avg > 0 else 0
PercentageOfAvg(count, avg) ==
    IF RatLess(RatOfInt(0), avg)
    THEN RatMul(RatDiv(RatOfInt(count), avg), RatOfInt(100))
    ELSE RatOfInt(0)

\* the entries the loop appends, in the order of transition_data
RECURSIVE SuspiciousOf(_, _, _)
SuspiciousOf(data, thr, avg) ==
    IF data = <<>> THEN <<>>
    ELSE IF IsSuspicious(Head(data).count, thr)
    THEN << [name |-> Head(data).name,
             transitions |-> Get(Head(data).count),
             suspicion_score |-> SuspicionScore(Get(Head(data).count), avg),
             percentage_of_avg |-> PercentageOfAvg(Get(Head(data).count), avg)] >>
         \o SuspiciousOf(Tail(data), thr, avg)
    ELSE SuspiciousOf(Tail(data), thr, avg)

RECURSIVE InsertByTransitions(_, _)
InsertByTransitions(sorted, x) ==
    IF sorted = <<>> THEN <<x>>
    ELSE IF x.transitions < Head(sorted).transitions THEN <<x>> \o sorted
    ELSE <<Head(sorted)>> \o InsertByTransitions(Tail(sorted), x)

\* list.sort(key=transitions): ascending, equal keys keep their order
RECURSIVE SortByTransitions(_)
SortByTransitions(xs) ==
    IF xs = <<>> THEN <<>>
    ELSE InsertByTransitions(SortByTransitions(SubSeq(xs, 1, Len(xs) - 1)),
                             xs[Len(xs)])

\* ------------------------------------------------------------------------
\* PCTDDetector.analyze_trojan_candidates
\* ------------------------------------------------------------------------

LowerOf(c) ==
    CASE c = "A" -> "a" [] c = "B" -> "b" [] c = "C" -> "c" [] c = "D" -> "d"
      [] c = "E" -> "e" [] c = "F" -> "f" [] c = "G" -> "g" [] c = "H" -> "h"
      [] c = "I" -> "i" [] c = "J" -> "j" [] c = "K" -> "k" [] c = "L" -> "l"
      [] c = "M" -> "m" [] c = "N" -> "n" [] c = "O" -> "o" [] c = "P" -> "p"
      [] c = "Q" -> "q" [] c = "R" -> "r" [] c = "S" -> "s" [] c = "T" -> "t"
      [] c = "U" -> "u" [] c = "V" -> "v" [] c = "W" -> "w" [] c = "X" -> "x"
      [] c = "Y" -> "y" [] c = "Z" -> "z" [] OTHER -> c

Lower(s) == [i \in 1..Len(s) |-> LowerOf(s[i])]

\* re.match(r'.*<word>\[?\d*\]?$', name, re.IGNORECASE)
MatchesSuffix(name, word) ==
    \E k \in 0..Len(name) :
        LET rest == From(name, k)
            tail == From(rest, Len(word))
            t1 == IF tail # <<>> /\ Head(tail) = "[" THEN Tail(tail) ELSE tail
            t2 == From(t1, Span(t1, Digits))
            t3 == IF t2 # <<>> /\ Head(t2) = "]" THEN Tail(t2) ELSE t2
        IN  StartsWith(Lower(rest), word) /\ t3 = <<>>

\* re.match(r'.*<word>.*', name, re.IGNORECASE)
MatchesWord(name, word) == Contains(Lower(name), word)

\* some pattern of dff_patterns matches the name
MatchesDffPattern(name) ==
    \/ MatchesSuffix(name, <<"_", "r", "e", "g">>)
    \/ MatchesSuffix(name, <<"_", "q">>)
    \/ MatchesWord(name, <<"s", "t", "a", "t", "e">>)
    \/ MatchesWord(name, <<"c", "o", "u", "n", "t">>)
    \/ MatchesWord(name, <<"s", "h", "i", "f", "t">>)

\* a membership test that only looks for the hint inside the name
RECURSIVE InDffListOneWay(_, _)
InDffListOneWay(name, dffs) ==
    IF dffs = <<>> THEN FALSE
    ELSE IF Contains(name, Head(dffs)) THEN TRUE
    ELSE InDffListOneWay(name, Tail(dffs))

\* the loop over dff_list: the first entry that contains the name or is
\* contained in it sets is_dff and ends the loop
RECURSIVE InDffList(_, _)
InDffList(name, dffs) ==
    IF dffs = <<>> THEN FALSE
    ELSE IF Contains(name, Head(dffs)) \/ Contains(Head(dffs), name) THEN TRUE
    ELSE InDffList(name, Tail(dffs))

IsDff(name, dffs) == InDffList(name, dffs) \/ MatchesDffPattern(name)

Five == <<5, 1>>

Ten == <<10, 1>>

Twenty == <<20, 1>>

\* tiers with inclusive upper boundaries
RiskLevelInclusive(pct) ==
    IF ~RatLess(Five, pct) THEN "CRITICAL"
    ELSE IF ~RatLess(Ten, pct) THEN "HIGH"
    ELSE IF ~RatLess(Twenty, pct) THEN "MEDIUM"
    ELSE "LOW"

RiskLevel(pct) ==
    IF RatLess(pct, Five) THEN "CRITICAL"
    ELSE IF RatLess(pct, Ten) THEN "HIGH"
    ELSE IF RatLess(pct, Twenty) THEN "MEDIUM"
    ELSE "LOW"

Candidate(sus) ==
    [signal |-> sus.name,
     transitions |-> sus.transitions,
     percentage_of_avg |-> sus.percentage_of_avg,
     trojan_probability |-> RatMul(sus.suspicion_score, RatOfInt(100)),
     risk_level |-> RiskLevel(sus.percentage_of_avg)]

\* a loop that makes every suspicious signal a candidate
CandidatesOfAll(sus, dffs) == [j \in 1..Len(sus) |-> Candidate(sus[j])]

\* the candidates the loop appends, in the order of suspicious_signals
RECURSIVE CandidatesOf(_, _)
CandidatesOf(sus, dffs) ==
    IF sus = <<>> THEN <<>>
    ELSE IF IsDff(Head(sus).name, dffs)
    THEN <<Candidate(Head(sus))>> \o CandidatesOf(Tail(sus), dffs)
    ELSE CandidatesOf(Tail(sus), dffs)

\* an insertion that puts a candidate before its equals
RECURSIVE InsertBeforeEquals(_, _)
InsertBeforeEquals(sorted, x) ==
    IF sorted = <<>> THEN <<x>>
    ELSE IF ~RatLess(x.trojan_probability, Head(sorted).trojan_probability)
    THEN <<x>> \o sorted
    ELSE <<Head(sorted)>> \o InsertBeforeEquals(Tail(sorted), x)

RECURSIVE InsertByProbability(_, _)
InsertByProbability(sorted, x) ==
    IF sorted = <<>> THEN <<x>>
    ELSE IF RatLess(Head(sorted).trojan_probability, x.trojan_probability)
    THEN <<x>> \o sorted
    ELSE <<Head(sorted)>> \o InsertByProbability(Tail(sorted), x)

\* list.sort(key=trojan_probability, reverse=True): descending, equal keys
\* keep their order
RECURSIVE SortByProbability(_)
SortByProbability(xs) ==
    IF xs = <<>> THEN <<>>
    ELSE InsertByProbability(SortByProbability(SubSeq(xs, 1, Len(xs) - 1)),
                             xs[Len(xs)])

\* ------------------------------------------------------------------------
\* PCTDDetector as steps, in the order of run_detection
\* ------------------------------------------------------------------------

\* the caller sets the percentile of the detector it has constructed
Configure ==
    /\ det_pc = "new"
    /\ \E p \in Percentiles : threshold_percentile' = p
    /\ UNCHANGED <<det_pc, transition_data, avg_transitions, max_transitions,
                   min_transitions, dff_list, threshold_index, threshold,
                   suspicious_signals, trojan_candidates, runs,
                   first_candidates>>
    /\ UNCHANGED <<vcd_vars, rep_vars>>

LoadTransitionDataOf(file) ==
    LET loaded == LoadedMapping(file)
    IN  /\ det_pc = "new"
        /\ IF "members" \in DOMAIN loaded
           THEN LET data == loaded.members
                    counts == NumericCounts(data)
                IN  /\ det_pc' = "loaded"
                    /\ transition_data' = data
                    /\ IF data # <<>> /\ counts # <<>>
                       THEN /\ avg_transitions' = Some(Average(counts))
                            /\ max_transitions' = Some(MaxOf(counts))
                            /\ min_transitions' = Some(MinOf(counts))
                       ELSE UNCHANGED <<avg_transitions, max_transitions,
                                        min_transitions>>
           ELSE \* len(self.transition_data) of a number or of None raises
                /\ det_pc' = "TypeError"
                /\ transition_data' = loaded.count
                /\ UNCHANGED <<avg_transitions, max_transitions,
                               min_transitions>>
        /\ UNCHANGED <<threshold_percentile, dff_list, threshold_index,
                       threshold, suspicious_signals, trojan_candidates, runs,
                       first_candidates>>
        /\ UNCHANGED <<vcd_vars, rep_vars>>

LoadTransitionData ==
    /\ det_pc = "new"
    /\ \E file \in Artifacts(MaxSignals) : LoadTransitionDataOf(file)

\* the file is missing or is not JSON: sys.exit(1)
LoadTransitionDataFails ==
    /\ det_pc = "new"
    /\ det_pc' = "exit"
    /\ UNCHANGED <<threshold_percentile, transition_data, avg_transitions,
                   max_transitions, min_transitions, dff_list, threshold_index,
                   threshold, suspicious_signals, trojan_candidates, runs,
                   first_candidates>>
    /\ UNCHANGED <<vcd_vars, rep_vars>>

\* parse_verilog: the names assigned in clocked always blocks of the
\* Verilog file become dff_list
ParseVerilog ==
    /\ det_pc = "loaded"
    /\ \E hints \in HintLists : dff_list' = hints
    /\ det_pc' = "parsed"
    /\ UNCHANGED <<threshold_percentile, transition_data, avg_transitions,
                   max_transitions, min_transitions, threshold_index,
                   threshold, suspicious_signals, trojan_candidates, runs,
                   first_candidates>>
    /\ UNCHANGED <<vcd_vars, rep_vars>>

\* the Verilog file is missing: sys.exit(1)
ParseVerilogFails ==
    /\ det_pc = "loaded"
    /\ det_pc' = "exit"
    /\ UNCHANGED <<threshold_percentile, transition_data, avg_transitions,
                   max_transitions, min_transitions, dff_list, threshold_index,
                   threshold, suspicious_signals, trojan_candidates, runs,
                   first_candidates>>
    /\ UNCHANGED <<vcd_vars, rep_vars>>

\* the body of identify_suspicious_signals
Identify ==
    LET counts == PositiveCounts(transition_data)
        counts_sorted == Sorted(counts)
        index == ThresholdIndex(Len(counts_sorted), threshold_percentile)
        thr == counts_sorted[index + 1]
        avg == Get(avg_transitions)
        divides_by_zero ==
            /\ RatIsZero(avg)
            /\ \E i \in 1..Len(transition_data) :
                   IsSuspicious(transition_data[i].count, thr)
    IN  /\ runs' = runs + 1
        /\ IF transition_data = <<>> \/ counts = <<>>
           THEN \* nothing to score: the method returns
                /\ det_pc' = "identified"
                /\ UNCHANGED <<threshold_index, threshold, suspicious_signals>>
           ELSE IF index >= Len(counts_sorted)
           THEN \* counts_sorted[threshold_index] raises IndexError
                /\ det_pc' = "IndexError"
                /\ threshold_index' = Some(index)
                /\ UNCHANGED <<threshold, suspicious_signals>>
           ELSE IF divides_by_zero
           THEN \* count / self.avg_transitions raises ZeroDivisionError
                /\ det_pc' = "ZeroDivisionError"
                /\ threshold_index' = Some(index)
                /\ threshold' = Some(thr)
                /\ UNCHANGED suspicious_signals
           ELSE /\ det_pc' = "identified"
                /\ threshold_index' = Some(index)
                /\ threshold' = Some(thr)
                /\ suspicious_signals' =
                     SortByTransitions(
                         suspicious_signals
                             \o SuspiciousOf(transition_data, thr, avg))
        /\ UNCHANGED <<threshold_percentile, transition_data, avg_transitions,
                       max_transitions, min_transitions, dff_list,
                       trojan_candidates, first_candidates>>
        /\ UNCHANGED <<vcd_vars, rep_vars>>

IdentifySuspiciousSignals ==
    /\ det_pc = "parsed"
    /\ Identify

AnalyzeTrojanCandidates ==
    /\ det_pc = "identified"
    /\ trojan_candidates' =
         SortByProbability(
             trojan_candidates \o CandidatesOf(suspicious_signals, dff_list))
    /\ first_candidates' =
         IF IsNone(first_candidates) THEN Some(trojan_candidates')
         ELSE first_candidates
    /\ det_pc' = "analyzed"
    /\ UNCHANGED <<threshold_percentile, transition_data, avg_transitions,
                   max_transitions, min_transitions, dff_list, threshold_index,
                   threshold, suspicious_signals, runs>>
    /\ UNCHANGED <<vcd_vars, rep_vars>>

\* generate_report formats self.avg_transitions, which exists only when the
\* loader found a numeric count
DetGenerateReport ==
    /\ det_pc = "analyzed"
    /\ det_pc' = IF IsNone(avg_transitions) THEN "AttributeError" ELSE "reported"
    /\ UNCHANGED <<threshold_percentile, transition_data, avg_transitions,
                   max_transitions, min_transitions, dff_list, threshold_index,
                   threshold, suspicious_signals, trojan_candidates, runs,
                   first_candidates>>
    /\ UNCHANGED <<vcd_vars, rep_vars>>

\* the scorer is called once more on the same detector object
IdentifyAgain ==
    /\ det_pc = "analyzed"
    /\ runs < MaxRuns
    /\ Identify

\* ------------------------------------------------------------------------
\* VCDAnalyzer.calculate_frequencies, identify_dff_signals, generate_report
\* and save_json
\* ------------------------------------------------------------------------

RatAdd(a, b) ==
    LET d == (a[2] \div Gcd(a[2], b[2])) * b[2]
    IN  Rat(a[1] * (d \div a[2]) + b[1] * (d \div b[2]), d)

\* s.endswith(p)
EndsWith(s, p) == Len(s) >= Len(p) /\ From(s, Len(s) - Len(p)) = p

\* the unit matched in the timescale as written, without lower-casing
TimeMultiplierCaseSensitive(ts) ==
    IF Contains(ts, <<"n", "s">>) THEN RatOfInt(1)
    ELSE IF Contains(ts, <<"u", "s">>) THEN RatOfInt(1000)
    ELSE IF Contains(ts, <<"m", "s">>) THEN RatOfInt(1000000)
    ELSE IF Contains(ts, <<"p", "s">>) THEN Rat(1, 1000)
    ELSE RatOfInt(1)

\* the multiplier of the time unit, by the first of 'ns', 'us', 'ms', 'ps'
\* found in the lower-cased timescale
TimeMultiplier(ts) ==
    LET timescale_lower == Lower(ts)
    IN  IF Contains(timescale_lower, <<"n", "s">>) THEN RatOfInt(1)
        ELSE IF Contains(timescale_lower, <<"u", "s">>) THEN RatOfInt(1000)
        ELSE IF Contains(timescale_lower, <<"m", "s">>) THEN RatOfInt(1000000)
        ELSE IF Contains(timescale_lower, <<"p", "s">>) THEN Rat(1, 1000)
        ELSE RatOfInt(1)

TimeNs(sim_time, ts) == RatMul(RatOfInt(sim_time), TimeMultiplier(ts))

\* one frequency per key of self.transitions
CalculateFrequencies(trans, sim_time, ts) ==
    LET time_ns == TimeNs(sim_time, ts)
    IN  [signal_name \in DOMAIN trans |->
            IF RatLess(RatOfInt(0), time_ns)
            THEN RatDiv(RatOfInt(trans[signal_name]), time_ns)
            ELSE RatOfInt(0)]

\* re.match of some pattern of the analyzer's dff_patterns, ignoring case
AnalyzerMatchesDff(name) ==
    LET lower == Lower(name)
    IN  \/ EndsWith(lower, <<"_", "q">>)
        \/ \E k \in 1..Len(lower) :
              /\ StartsWith(From(lower, k - 1), <<"_", "r", "e", "g", "[">>)
              /\ lower[Len(lower)] = "]"
              /\ Len(lower) >= k + 5
        \/ EndsWith(lower, <<"_", "r", "e", "g">>)
        \/ Contains(lower, <<"d", "f", "f">>)
        \/ Contains(lower, <<"s", "t", "a", "t", "e">>)
        \/ Contains(lower, <<"c", "n", "t", "r">>)
        \/ Contains(lower, <<"c", "o", "u", "n", "t">>)
        \/ Contains(lower, <<"s", "h", "i", "f", "t">>)
        \/ Contains(lower, <<"_", "f", "f">>)
        \/ (StartsWith(lower, <<"q", "[">>) /\ Len(lower) >= 3
              /\ lower[Len(lower)] = "]")

IdentifyDffSignals(freqs) ==
    [signal_name \in {n \in DOMAIN freqs : AnalyzerMatchesDff(n)} |->
        freqs[signal_name]]

\* the values of a dict, as a sequence
RECURSIVE ValuesOf(_, _)
ValuesOf(d, keys) ==
    IF keys = {} THEN <<>>
    ELSE LET k == CHOOSE x \in keys : TRUE
         IN  <<d[k]>> \o ValuesOf(d, keys \ {k})

RECURSIVE SumRat(_)
SumRat(vs) == IF vs = <<>> THEN RatOfInt(0) ELSE RatAdd(Head(vs), SumRat(Tail(vs)))

MinRat(vs) ==
    LET i == CHOOSE i \in 1..Len(vs) : \A j \in 1..Len(vs) : ~RatLess(vs[j], vs[i])
    IN  vs[i]

MaxRat(vs) ==
    LET i == CHOOSE i \in 1..Len(vs) : \A j \in 1..Len(vs) : ~RatLess(vs[i], vs[j])
    IN  vs[i]

\* how many frequencies are 0
RECURSIVE ZeroCount(_)
ZeroCount(vs) ==
    IF vs = <<>> THEN 0
    ELSE (IF RatIsZero(Head(vs)) THEN 1 ELSE 0) + ZeroCount(Tail(vs))

\* the stats of generate_report, for a non-empty frequencies dict
StatsOf(freqs, trans) ==
    LET values == ValuesOf(freqs, DOMAIN freqs)
        trans_counts == ValuesOf(trans, DOMAIN trans)
    IN  [total_signals |-> Cardinality(DOMAIN freqs),
         min_freq |-> MinRat(values),
         max_freq |-> MaxRat(values),
         avg_freq |-> RatDiv(SumRat(values), RatOfInt(Len(values))),
         zero_transitions |-> ZeroCount(values),
         min_trans |-> MinOf(trans_counts),
         max_trans |-> MaxOf(trans_counts),
         avg_trans |-> Rat(Sum(trans_counts), Len(trans_counts))]

\* generate_report, called by the script after parse_vcd has returned
GenerateReport ==
    /\ vcd_pc \in {"parsed", "unreadable"}
    /\ LET freqs == CalculateFrequencies(transitions, simulation_time, timescale)
       IN  IF DOMAIN freqs = {}
           THEN \* "Warning: No frequencies calculated", return {}, {}
                /\ frequencies' = Some(EmptyDict)
                /\ dff_signals' = Some(EmptyDict)
                /\ stats' = None
           ELSE /\ frequencies' = Some(freqs)
                /\ dff_signals' = Some(IdentifyDffSignals(freqs))
                /\ stats' = Some(StatsOf(freqs, transitions))
    /\ vcd_pc' = "reported"
    /\ UNCHANGED <<signals, transitions, signal_values, timescale,
                   simulation_time, in_dump_section, current_time, line_num,
                   tally, stamps>>
    /\ UNCHANGED <<open_failed, all_data, dff_data>>
    /\ UNCHANGED det_vars

\* save_json, called by the script after generate_report
SaveJson ==
    /\ vcd_pc = "reported"
    /\ LET freqs == CalculateFrequencies(transitions, simulation_time, timescale)
           dffs == IdentifyDffSignals(freqs)
       IN  /\ frequencies' = Some(freqs)
           /\ dff_signals' = Some(dffs)
           /\ all_data' = Some([frequencies |-> freqs,
                                transition_counts |-> transitions])
           /\ dff_data' = Some([frequencies |-> dffs,
                                transition_counts |->
                                    [s \in DOMAIN dffs |-> transitions[s]]])
    /\ vcd_pc' = "saved"
    /\ UNCHANGED <<signals, transitions, signal_values, timescale,
                   simulation_time, in_dump_section, current_time, line_num,
                   tally, stamps>>
    /\ UNCHANGED <<open_failed, stats>>
    /\ UNCHANGED det_vars

\* ------------------------------------------------------------------------
\* calculate_frequencies on the states a decode can end in: a timescale
\* string, a simulation time, and counted signals d_q (code %) and w (code !)
\* ------------------------------------------------------------------------

TimescaleValues ==
    { <<"1", "n", "s">>, <<"1", "u", "s">>, <<"1", "0", "0", "m", "s">>,
      <<"1", "p", "s">>, <<"1", "0", "P", "S">>, <<"1", "U", "s">>,
      <<"1", "s">>, <<"1", "f", "s">>, <<"1">> }

SimulationTimes == {0, 1, 3, 100}

DecodedCounts == {1, 2, 5}

\* the signal table in which exactly the names of `names` are declared
SignalsOf(names) ==
    [code \in {c \in {CodeA, CodeB} :
                 (c = CodeA /\ NameW \in names) \/ (c = CodeB /\ NameQ \in names)} |->
        [name |-> IF code = CodeA THEN NameW ELSE NameQ,
         type |-> KwWire, size |-> <<"1">>, last_value |-> Some(<<"1">>)]]

InitDecoded ==
    /\ vcd_pc = "parsed"
    /\ \E names \in SUBSET {NameQ, NameW} :
          /\ transitions \in [names -> DecodedCounts]
          /\ signals = SignalsOf(names)
          /\ tally = [code \in DOMAIN signals |-> transitions[signals[code].name]]
          /\ signal_values = [n \in names |-> transitions[n] + 1]
    /\ timescale \in TimescaleValues
    /\ simulation_time \in SimulationTimes
    /\ current_time = simulation_time
    /\ stamps = {simulation_time} \ {0}
    /\ in_dump_section = (simulation_time > 0 \/ transitions # EmptyDict)
    /\ line_num = MaxLines
    /\ open_failed = FALSE
    /\ frequencies = None
    /\ dff_signals = None
    /\ stats = None
    /\ all_data = None
    /\ dff_data = None
    /\ DetInit

NextFrequencies == GenerateReport \/ SaveJson

\* generate_report and save_json after a decode
SpecFrequencies == InitDecoded /\ [][NextFrequencies]_vars

\* ------------------------------------------------------------------------
\* The detector on artifacts of both shapes, over signal names that include
\* the name transition_counts
\* ------------------------------------------------------------------------

FormatNames == {NameQ, NameW, KeyTransitionCounts}

FormatValues == {Some(1), Some(4), Some(55), None}

MaxFormatSignals == 3

FormatMappings ==
    UNION { {m \in [1..k -> [name : FormatNames, count : FormatValues]] :
                \A i, j \in 1..k : m[i].name = m[j].name => i = j} :
            k \in 0..MaxFormatSignals }

LoadWrapper ==
    /\ det_pc = "new"
    /\ \E m \in FormatMappings : LoadTransitionDataOf(WrapperOf(m))

LoadLegacy ==
    /\ det_pc = "new"
    /\ \E m \in FormatMappings : LoadTransitionDataOf(LegacyOf(m))

NextFormats ==
    \/ Configure
    \/ LoadWrapper
    \/ LoadLegacy
    \/ ParseVerilog
    \/ IdentifySuspiciousSignals
    \/ AnalyzeTrojanCandidates

SpecFormats == Init /\ [][NextFormats]_vars

\* ------------------------------------------------------------------------
\* The register classifier of analyze_trojan_candidates on one suspicious
\* signal: the data holds the signal with count 1 next to a filler signal
\* with count 55, the percentile puts the threshold on the filler, and parse_verilog has left a hint
\* list
\* ------------------------------------------------------------------------

ClassifierNames ==
    { <<"w">>,
      <<"w", "r", "x">>,
      <<"n", "1">>,
      <<"d", "_", "q">>,
      <<"D", "_", "Q">>,
      <<"a", "_", "r", "e", "g", "[", "3", "]">>,
      <<"a", "_", "r", "e", "g", "5">>,
      <<"q", "_", "a">>,
      <<"r", "e", "g">>,
      <<"S", "t", "a", "t", "e">>,
      <<"c", "o", "u", "n", "t">>,
      <<"s", "h", "i", "f", "t", "1">>,
      <<"a", "_", "q", "]">>,
      <<"r", "e", "g", "x">> }

ClassifierHintLists ==
    { <<>>,
      <<<<"w", "r">>>>,
      <<<<"w">>>>,
      <<<<"z", "z">>>>,
      <<<<"w", "r">>, <<"z", "z">>>>,
      <<<<"z", "z">>, <<"w", "r">>>>,
      <<<<"n", "1", "x">>, <<"q">>>> }

NameFiller == <<"f">>

ClassifierPercentiles == {50, 90}

ClassifierData(name) ==
    << [name |-> name, count |-> Some(1)],
       [name |-> NameFiller, count |-> Some(55)] >>

InitClassify ==
    /\ VcdInit
    /\ det_pc = "parsed"
    /\ threshold_percentile \in ClassifierPercentiles
    /\ \E name \in ClassifierNames :
          /\ transition_data = ClassifierData(name)
          /\ avg_transitions = Some(Average(NumericCounts(transition_data)))
          /\ max_transitions = Some(MaxOf(NumericCounts(transition_data)))
          /\ min_transitions = Some(MinOf(NumericCounts(transition_data)))
    /\ dff_list \in ClassifierHintLists
    /\ threshold_index = None
    /\ threshold = None
    /\ suspicious_signals = <<>>
    /\ trojan_candidates = <<>>
    /\ runs = 0
    /\ first_candidates = None

NextClassify == IdentifySuspiciousSignals \/ AnalyzeTrojanCandidates

SpecClassify == InitClassify /\ [][NextClassify]_vars

NextDetect ==
    \/ Configure
    \/ LoadTransitionData
    \/ LoadTransitionDataFails
    \/ ParseVerilog
    \/ ParseVerilogFails
    \/ IdentifySuspiciousSignals
    \/ AnalyzeTrojanCandidates
    \/ DetGenerateReport

NextRerun ==
    \/ NextDetect
    \/ IdentifyAgain

NextDecode ==
    \/ OpenVcd
    \/ OpenVcdFails
    \/ SkipBlank
    \/ ReadTimescale
    \/ ReadVar
    \/ ReadTimestamp
    \/ ReadValueChange
    \/ IgnoreLine
    \/ EndOfFile
    \/ GenerateReport
    \/ SaveJson

Next == NextDecode \/ NextDetect

Spec == Init /\ [][Next]_vars

\* the trace decoder alone (extract_transitions.py run as a script)
SpecDecode == Init /\ [][NextDecode]_vars

\* the detector alone (PCTD_improved.py run as a script)
SpecDetect == Init /\ [][NextDetect]_vars

\* the detector, with the scorer called again on the same object
SpecRerun == Init /\ [][NextRerun]_vars

\* ------------------------------------------------------------------------
\* Claims about the decoder
\* ------------------------------------------------------------------------

\* the count reported for the signal declared under `code`
ReportedCount(trans, sigs, code) == GetOr0(trans, sigs[code].name)

\* C1: for a declared signal inside the value-change section, a scalar
\* value-change line raises the signal's transition count by exactly one if
\* and only if the stored value and the new value are both in {0,1} and
\* differ, leaves it unchanged in every other case, and always stores the
\* new value as the last value.
C1_ScalarRule ==
    [][\A raw \in VcdLines :
         LET line == StrippedLine[raw]
             ch == Addressed(line, signals)
             code == Get(ch).signal_id
             before == signals[code].last_value
             value == Get(ch).value
             counted == /\ before # None
                        /\ Get(before) \in Binary
                        /\ value \in Binary
                        /\ Get(before) # value
         IN  (IsScalarChange(line) /\ ~IsNone(ch) /\ ReadValueChangeOf(raw)) =>
                /\ ReportedCount(transitions', signals, code)
                     = ReportedCount(transitions, signals, code)
                         + (IF counted THEN 1 ELSE 0)
                /\ signals'[code].last_value = Some(value)
      ]_vars

\* C2: for a declared signal inside the value-change section, a vector or
\* real value-change line raises the signal's transition count by exactly
\* one whenever a value is stored and the new string differs from it (x and
\* z bits are not filtered), never on the first observation or on a repeated
\* string, and always stores the new string as the last value.
C2_VectorRule ==
    [][\A raw \in VcdLines :
         LET line == StrippedLine[raw]
             ch == Addressed(line, signals)
             code == Get(ch).signal_id
             before == signals[code].last_value
             value == Get(ch).value
             counted == before # None /\ Get(before) # value
         IN  ((StartsWith(line, <<"b">>) \/ StartsWith(line, <<"r">>))
                /\ ~IsNone(ch) /\ ReadValueChangeOf(raw)) =>
                /\ ReportedCount(transitions', signals, code)
                     = ReportedCount(transitions, signals, code)
                         + (IF counted THEN 1 ELSE 0)
                /\ signals'[code].last_value = Some(value)
      ]_vars

\* the bus trace b00, b01 (or b0x), b00 on one code has been decoded: three
\* values recorded, two transitions counted
C2_Witness ==
    /\ DOMAIN signals = {CodeB}
    /\ signals[CodeB].last_value = Some(<<"0", "0">>)
    /\ GetOr0(signal_values, NameQ) = 3
    /\ GetOr0(transitions, NameQ) = 2

\* C3: after decode, the transition count reported for each signal equals
\* the tally of the counted value changes addressed to the signal's own
\* code: changes on one code never add to the count of a signal declared
\* under another code.
C3_CountsEqualTally ==
    vcd_pc = "parsed" =>
        \A code \in DOMAIN signals :
            ReportedCount(transitions, signals, code) = tally[code]

\* ------------------------------------------------------------------------
\* Claims about the detector
\* ------------------------------------------------------------------------

\* identify_suspicious_signals has returned
Identified == det_pc \in {"identified", "analyzed", "reported"}

\* analyze_trojan_candidates has returned
Analyzed == det_pc \in {"analyzed", "reported"}

SuspiciousNames ==
    {suspicious_signals[j].name : j \in 1..Len(suspicious_signals)}

CandidateNames ==
    {trojan_candidates[j].signal : j \in 1..Len(trojan_candidates)}

\* C4: once identify_suspicious_signals has returned, a signal of the loaded
\* data is in the suspicious list if and only if its count is a number with
\* 0 < count < threshold; when no threshold was computed the list is empty.
C4_SuspiciousIff ==
    Identified =>
        /\ IsNone(threshold) => suspicious_signals = <<>>
        /\ ~IsNone(threshold) =>
             \A i \in 1..Len(transition_data) :
                 LET e == transition_data[i]
                 IN  e.name \in SuspiciousNames
                       <=> /\ e.count # None
                           /\ 0 < Get(e.count)
                           /\ Get(e.count) < Get(threshold)

\* a signal below the threshold is listed, while a signal with count 0 and
\* a signal at the threshold are not
C4_Witness ==
    /\ det_pc = "identified"
    /\ ~IsNone(threshold)
    /\ suspicious_signals # <<>>
    /\ \E i, j \in 1..Len(transition_data) :
         /\ transition_data[i].count = Some(0)
         /\ transition_data[j].count = threshold
         /\ transition_data[i].name \notin SuspiciousNames
         /\ transition_data[j].name \notin SuspiciousNames

\* the positive numeric counts of the loaded data, as a set of positions
PositivePositions ==
    {i \in 1..Len(transition_data) :
        transition_data[i].count # None /\ Get(transition_data[i].count) > 0}

\* C5: whenever a threshold index is computed for N >= 1 positive counts and
\* percentile P, it is floor(N*P/100) clamped into [0, N-1], and the
\* threshold is the count at that position of the ascending counts.
C5_IndexClamped ==
    ~IsNone(threshold_index) =>
        LET n == Cardinality(PositivePositions)
            k == Min(Max((n * threshold_percentile) \div 100, 0), n - 1)
            below(v) == Cardinality({i \in PositivePositions :
                                        Get(transition_data[i].count) < v})
            upto(v) == Cardinality({i \in PositivePositions :
                                        Get(transition_data[i].count) <= v})
        IN  /\ Get(threshold_index) = k
            /\ ~IsNone(threshold)
            /\ below(Get(threshold)) <= k
            /\ k < upto(Get(threshold))

\* C6: with a positive corpus average a = S/M (S the sum and M the number of
\* all numeric counts, zeros included), every suspicious signal with count c
\* has suspicion_score = 1 - c/a and percentage_of_average = 100*c/a, and
\* its candidate has trojan_probability = 100 * suspicion_score.
C6_Scores ==
    LET S == Sum(NumericCounts(transition_data))
        M == Len(NumericCounts(transition_data))
    IN  (M > 0 /\ S > 0) =>
            /\ \A j \in 1..Len(suspicious_signals) :
                 LET c == suspicious_signals[j].transitions
                     score == suspicious_signals[j].suspicion_score
                     pct == suspicious_signals[j].percentage_of_avg
                 IN  /\ score[1] * S = (S - c * M) * score[2]
                     /\ pct[1] * S = (100 * c * M) * pct[2]
            /\ \A k \in 1..Len(trojan_candidates) :
                 \E j \in 1..Len(suspicious_signals) :
                     LET score == suspicious_signals[j].suspicion_score
                         prob == trojan_candidates[k].trojan_probability
                     IN  /\ suspicious_signals[j].name = trojan_candidates[k].signal
                         /\ prob[1] * score[2] = 100 * score[1] * prob[2]

\* a candidate exists for data whose average counts a zero
C6_Witness ==
    /\ Analyzed
    /\ trojan_candidates # <<>>
    /\ Sum(NumericCounts(transition_data)) > 0
    /\ \E i \in 1..Len(transition_data) : transition_data[i].count = Some(0)

\* C7: after analyze_trojan_candidates the candidates are exactly the
\* suspicious signals the register classifier accepts, each exactly once.
C7_CandidatesAreRegisters ==
    Analyzed =>
        /\ \A k \in 1..Len(trojan_candidates) :
             /\ trojan_candidates[k].signal \in SuspiciousNames
             /\ IsDff(trojan_candidates[k].signal, dff_list)
        /\ \A j \in 1..Len(suspicious_signals) :
             Cardinality({k \in 1..Len(trojan_candidates) :
                            trojan_candidates[k].signal = suspicious_signals[j].name})
               = IF IsDff(suspicious_signals[j].name, dff_list) THEN 1 ELSE 0

\* one suspicious signal became a candidate and another, not a register,
\* did not
C7_Witness ==
    /\ Analyzed
    /\ trojan_candidates # <<>>
    /\ \E j \in 1..Len(suspicious_signals) :
         /\ ~IsDff(suspicious_signals[j].name, dff_list)
         /\ suspicious_signals[j].name \notin CandidateNames

\* C8: a candidate's risk level is CRITICAL iff p < 5, HIGH iff 5 <= p < 10,
\* MEDIUM iff 10 <= p < 20 and LOW iff p >= 20, for its percentage of
\* average p = n/d.
C8_RiskTiers ==
    \A k \in 1..Len(trojan_candidates) :
        LET n == trojan_candidates[k].percentage_of_avg[1]
            d == trojan_candidates[k].percentage_of_avg[2]
            risk == trojan_candidates[k].risk_level
        IN  /\ risk = "CRITICAL" <=> n < 5 * d
            /\ risk = "HIGH" <=> (5 * d <= n /\ n < 10 * d)
            /\ risk = "MEDIUM" <=> (10 * d <= n /\ n < 20 * d)
            /\ risk = "LOW" <=> 20 * d <= n

\* one candidate at exactly 5 percent is HIGH and one at exactly 20 percent
\* is LOW
C8_Witness ==
    \E k, m \in 1..Len(trojan_candidates) :
        /\ trojan_candidates[k].percentage_of_avg = <<5, 1>>
        /\ trojan_candidates[k].risk_level = "HIGH"
        /\ trojan_candidates[m].percentage_of_avg = <<20, 1>>
        /\ trojan_candidates[m].risk_level = "LOW"

\* the position of a signal in the suspicious list
PositionOf(name) ==
    CHOOSE j \in 1..Len(suspicious_signals) : suspicious_signals[j].name = name

\* C9: the final candidate list is in descending order of
\* trojan_probability, and candidates of equal probability are in the order
\* in which the suspicious list holds them.
C9_SortedStable ==
    Analyzed =>
        \A i, j \in 1..Len(trojan_candidates) :
            i < j =>
                LET a == trojan_candidates[i]
                    b == trojan_candidates[j]
                IN  /\ ~RatLess(a.trojan_probability, b.trojan_probability)
                    /\ a.trojan_probability = b.trojan_probability
                         => PositionOf(a.signal) < PositionOf(b.signal)

\* two candidates of equal probability stand in the list
C9_Witness ==
    /\ Analyzed
    /\ \E i, j \in 1..Len(trojan_candidates) :
         /\ i < j
         /\ trojan_candidates[i].signal # trojan_candidates[j].signal
         /\ trojan_candidates[i].trojan_probability
              = trojan_candidates[j].trojan_probability

\* C10: running the scorer again (identify_suspicious_signals, then
\* analyze_trojan_candidates) on the same counts, average and register tags
\* yields the candidate list of the first run: same entries, same
\* multiplicity, same order.
C10_RerunIdentical ==
    (runs >= 2 /\ det_pc = "analyzed") =>
        trojan_candidates = Get(first_candidates)

\* ------------------------------------------------------------------------
\* Claims about the report and the saved artifact of the decoder
\* ------------------------------------------------------------------------

\* the names of the declared signals
DeclaredNames == {signals[code].name : code \in DOMAIN signals}

\* C11: the aggregates of the report are computed over all declared
\* signals: the number of signals is the number of declared names, the
\* minimum count takes the 0 of a declared signal that was never counted,
\* and each such signal adds 1 to the number of signals with zero
\* transitions.
C11_AggregatesOverDeclared ==
    (vcd_pc = "reported" /\ stats # None) =>
        /\ Get(stats).total_signals = Cardinality(DeclaredNames)
        /\ \A n \in DeclaredNames :
              Get(stats).min_trans <= GetOr0(transitions, n)
        /\ Get(stats).zero_transitions
             = Cardinality({n \in DeclaredNames : GetOr0(transitions, n) = 0})

\* C12: every frequency is the transition count divided by the simulated
\* time in nanoseconds, the simulation time multiplied by 1 for ns, 1000
\* for us, 1000000 for ms, 1/1000 for ps (the unit found in the timescale
\* string whatever its case) and 1 for any other unit; when the simulated
\* time in nanoseconds is 0 every frequency is 0.
C12_Frequencies ==
    LET unit == Lower(timescale)
        num == IF Contains(unit, <<"n", "s">>) THEN 1
               ELSE IF Contains(unit, <<"u", "s">>) THEN 1000
               ELSE IF Contains(unit, <<"m", "s">>) THEN 1000000
               ELSE 1
        den == IF ~Contains(unit, <<"n", "s">>) /\ ~Contains(unit, <<"u", "s">>)
                  /\ ~Contains(unit, <<"m", "s">>) /\ Contains(unit, <<"p", "s">>)
               THEN 1000 ELSE 1
    IN  (vcd_pc \in {"reported", "saved"}) =>
            /\ DOMAIN Get(frequencies) = DOMAIN transitions
            /\ \A n \in DOMAIN transitions :
                  LET f == Get(frequencies)[n]
                  IN  IF simulation_time = 0 THEN f = <<0, 1>>
                      ELSE /\ f[2] > 0
                           \* f = count / (simulation_time * num / den)
                           /\ f[1] * simulation_time * num
                                = transitions[n] * den * f[2]

\* 5 transitions of d_q in 3 units of 10PS: 5 / 0.003 per nanosecond
C12_Witness ==
    /\ vcd_pc = "reported"
    /\ timescale = <<"1", "0", "P", "S">>
    /\ simulation_time = 3
    /\ NameQ \in DOMAIN transitions /\ transitions[NameQ] = 5
    /\ Get(frequencies)[NameQ] = <<5000, 3>>

\* ------------------------------------------------------------------------
\* Claims about the detector on degenerate data
\* ------------------------------------------------------------------------

\* the exceptions that leave a method of the detector
Exceptions == {"IndexError", "ZeroDivisionError", "AttributeError", "TypeError"}

\* the loaded data has no signal, or only signals with count 0
EmptyOrAllZero ==
    \A i \in 1..Len(transition_data) : transition_data[i].count = Some(0)

\* C13: when the loaded data has no signals, or only signals with count 0,
\* no step of the pipeline raises an error and the suspicious list and the
\* candidate list stay empty up to the end of generate_report.
C13_DegenerateDataNoError ==
    (det_pc \notin {"new", "exit"} /\ EmptyOrAllZero) =>
        /\ det_pc \notin Exceptions
        /\ suspicious_signals = <<>>
        /\ trojan_candidates = <<>>

\* C14: whenever the corpus average is 0 the scorer divides by nothing:
\* identify_suspicious_signals raises no ZeroDivisionError, and every signal
\* it scores has percentage_of_avg 0 and suspicion_score 0.
C14_ZeroAverageShortCircuits ==
    (avg_transitions = Some(RatOfInt(0))) =>
        /\ det_pc # "ZeroDivisionError"
        /\ \A i \in 1..Len(suspicious_signals) :
              /\ suspicious_signals[i].percentage_of_avg = RatOfInt(0)
              /\ suspicious_signals[i].suspicion_score = RatOfInt(0)

\* ------------------------------------------------------------------------
\* Claims about lines the decoder skips
\* ------------------------------------------------------------------------

\* a stripped line that does not parse under the decoding rules, or a
\* value-change line whose code is not declared
Unparsed(line, sigs, dumping) ==
    LET parts == TokensOf[line]
        is_change == dumping /\ line # <<>> /\ ~StartsWith(line, <<"$">>)
        scalar == Len(line) >= 2 /\ line[1] \in {"0", "1", "x", "z", "X", "Z"}
    IN  \/ line = <<>>
        \/ StartsWith(line, KwVar) /\ ~StartsWith(line, KwTimescale)
              /\ Len(parts) < 5
        \/ StartsWith(line, <<"#">>) /\ IsNone(ParseInt(From(line, 1)))
        \/ ~StartsWith(line, <<"$">>) /\ ~StartsWith(line, <<"#">>) /\ is_change
              /\ \/ scalar /\ From(line, 1) \notin DOMAIN sigs
                 \/ ~scalar /\ (line[1] = "b" \/ line[1] = "r")
                      /\ (Len(parts) < 2 \/ parts[2] \notin DOMAIN sigs)
                 \/ ~scalar /\ line[1] # "b" /\ line[1] # "r"
        \/ StartsWith(line, <<"$">>) /\ ~StartsWith(line, KwVar)
              /\ ~StartsWith(line, KwTimescale)

\* the loop body on the raw line, whichever branch takes it
ReadLineOf(raw) ==
    \/ SkipBlankOf(raw)
    \/ ReadTimescaleOf(raw)
    \/ ReadVarOf(raw)
    \/ ReadTimestampOf(raw)
    \/ ReadValueChangeOf(raw)
    \/ IgnoreLineOf(raw)

\* C15: a line that does not parse, and a value-change line whose code was
\* never declared, are skipped: the step that reads such a line leaves the
\* signal table with every last value, every transition count and
\* simulation_time as they were, and the decoder goes on reading.
C15_SkippedLinesChangeNothing ==
    [][\A raw \in VcdLines :
         (Unparsed(StrippedLine[raw], signals, in_dump_section) /\ ReadLineOf(raw)) =>
              /\ signals' = signals
              /\ transitions' = transitions
              /\ simulation_time' = simulation_time
              /\ in_dump_section' = in_dump_section
              /\ vcd_pc' = "parsing"
      ]_vars

\* one line has been read: it left no signal, no count, no time and the
\* default timescale, and the decoder is still reading
C15_Witness ==
    /\ vcd_pc = "parsing"
    /\ line_num = 1
    /\ signals = EmptyDict
    /\ transitions = EmptyDict
    /\ simulation_time = 0
    /\ ~in_dump_section
    /\ timescale = DefaultTimescale

\* ------------------------------------------------------------------------
\* Claims about the shapes of the transition artifact
\* ------------------------------------------------------------------------

\* C16: loading the wrapper-shaped artifact of a mapping m and loading the
\* legacy artifact that is m itself give the same internal representation:
\* either load ends with transition_data = m and with the statistics of m.
C16_SameRepresentation ==
    [][det_pc = "new" => \A m \in FormatMappings :
         (LoadTransitionDataOf(WrapperOf(m)) \/ LoadTransitionDataOf(LegacyOf(m)))
            => /\ det_pc' = "loaded"
               /\ transition_data' = m
               /\ (NumericCounts(m) # <<>> =>
                      avg_transitions' = Some(Average(NumericCounts(m))))
      ]_vars

\* ------------------------------------------------------------------------
\* Claims about missing input files
\* ------------------------------------------------------------------------

\* C17: a missing or unreadable input file is fatal to the operation that
\* needs it: once the trace file could not be opened no later step runs and
\* no frequencies and no artifact are produced, and once the transition
\* artifact could not be loaded the detector has exited with empty
\* suspicious and candidate lists.
C17_MissingInputIsFatal ==
    /\ open_failed =>
          /\ vcd_pc = "unreadable"
          /\ frequencies = None
          /\ all_data = None
          /\ dff_data = None
    /\ det_pc = "exit" =>
          /\ suspicious_signals = <<>>
          /\ trojan_candidates = <<>>

\* ------------------------------------------------------------------------
\* Claims about the register classifier
\* ------------------------------------------------------------------------

DropLast(s) == SubSeq(s, 1, Len(s) - 1)

RECURSIVE DropTrailingDigits(_)
DropTrailingDigits(s) ==
    IF s # <<>> /\ s[Len(s)] \in Digits THEN DropTrailingDigits(DropLast(s))
    ELSE s

\* the name, in lower case, without an index: a closing bracket, digits and
\* an opening bracket at its end, each optional
WithoutIndex(name) ==
    LET a == Lower(name)
        b == IF a # <<>> /\ a[Len(a)] = "]" THEN DropLast(a) ELSE a
        c == DropTrailingDigits(b)
    IN  IF c # <<>> /\ c[Len(c)] = "[" THEN DropLast(c) ELSE c

\* one of the fixed patterns matches the full name, whatever its case
SomePatternMatches(name) ==
    \/ EndsWith(WithoutIndex(name), <<"_", "r", "e", "g">>)
    \/ EndsWith(WithoutIndex(name), <<"_", "q">>)
    \/ \E w \in { <<"s", "t", "a", "t", "e">>, <<"c", "o", "u", "n", "t">>,
                  <<"s", "h", "i", "f", "t">> } : Contains(Lower(name), w)

Reverse(xs) == [i \in 1..Len(xs) |-> xs[Len(xs) + 1 - i]]

\* C18: the classifier accepts a suspicious signal if and only if some hint
\* contains its name or is contained in it, or one of the fixed patterns
\* matches the name whatever its case; the answer is the same when the
\* hints are tried in the opposite order.
C18_ClassifierIsOr ==
    Analyzed =>
        \A j \in 1..Len(suspicious_signals) :
            LET name == suspicious_signals[j].name
                accepted == name \in CandidateNames
            IN  /\ accepted <=>
                      \/ \E i \in 1..Len(dff_list) :
                            \/ Contains(dff_list[i], name)
                            \/ Contains(name, dff_list[i])
                      \/ SomePatternMatches(name)
                /\ accepted = IsDff(name, Reverse(dff_list))

\* the signal w, which no pattern matches, was accepted because the second
\* hint tried, wr, contains its name
C18_Witness ==
    /\ det_pc = "analyzed"
    /\ dff_list = << <<"z", "z">>, <<"w", "r">> >>
    /\ CandidateNames = {NameW}

\* ------------------------------------------------------------------------
\* Claims about retained value history and about uniform data
\* ------------------------------------------------------------------------

\* C19: the decoder keeps no per-event value history: whatever number of
\* value changes it has read, no signal has a retained (time, value) entry.
C19_NoValueHistory ==
    \A name \in DOMAIN signal_values : signal_values[name] = 0

\* every count of the data is a number and they are all the same, so each
\* equals the average
AllCountsEqual ==
    /\ transition_data # <<>>
    /\ \A i \in 1..Len(transition_data) : IsNumber(transition_data[i].count)
    /\ \A i, j \in 1..Len(transition_data) :
           transition_data[i].count = transition_data[j].count

\* C20: when every transition count equals the average, a call of
\* identify_suspicious_signals returns and leaves zero suspicious signals,
\* whatever the number of signals and the percentile.
C20_EqualCountsNoSuspicious ==
    (runs > 0 /\ AllCountsEqual) =>
        /\ Identified
        /\ suspicious_signals = <<>>

\* ------------------------------------------------------------------------
\* Claims about the decoder's clock, counts, time unit and signal table
\* ------------------------------------------------------------------------

\* the largest element of a non-empty set of integers
Greatest(ns) == CHOOSE n \in ns : \A m \in ns : m <= n

\* C21: simulation_time is the maximum of 0 and the timestamps parsed so
\* far; no step lowers it, and a step that reads a line changes it only
\* when the line, stripped, starts with #.
C21_SimulationTimeIsMax ==
    [][ /\ simulation_time' = Greatest(stamps' \cup {0})
        /\ simulation_time' >= simulation_time
        /\ simulation_time' # simulation_time =>
               \A raw \in VcdLines :
                   ReadLineOf(raw) => StartsWith(StrippedLine[raw], <<"#">>)
      ]_vars

\* timestamps 5 and then 3 were read out of order, and a negative one
C21_Witness ==
    /\ stamps = {5, 3, 0 - 2}
    /\ current_time = 3
    /\ simulation_time = 5

\* the signal names whose count differs between the two mappings
Changed(before, after) ==
    {n \in DOMAIN before \cup DOMAIN after : GetOr0(after, n) # GetOr0(before, n)}

\* C22: every transition count is at least 0 and never goes down: a step
\* raises at most one count, by exactly 1, and the steps after the decode
\* (generate_report with calculate_frequencies and identify_dff_signals,
\* save_json) leave all counts as they were.
C22_CountsMonotone ==
    [][ /\ \A n \in DOMAIN transitions' : transitions'[n] >= 0
        /\ DOMAIN transitions \subseteq DOMAIN transitions'
        /\ Cardinality(Changed(transitions, transitions')) <= 1
        /\ \A n \in Changed(transitions, transitions') :
               transitions'[n] = GetOr0(transitions, n) + 1
        /\ vcd_pc \in {"parsed", "unreadable", "reported"} =>
               transitions' = transitions
      ]_vars

\* two changes of d_q were counted and the report and the artifacts were
\* produced afterwards
C22_Witness ==
    /\ vcd_pc = "saved"
    /\ GetOr0(transitions, NameQ) = 2
    /\ ~IsNone(stats)

\* C23: the step that reads a $timescale line stores the declared unit,
\* the <digits><unit-letters> token of the line, when the line carries one,
\* and the default unit 1ns when it carries none; the decoder goes on
\* reading either way.
C23_TimescaleOrDefault ==
    [][ \A raw \in TimescaleLines :
            ReadTimescaleOf(raw) =>
                LET unit == SearchUnit(StrippedLine[raw])
                IN  /\ vcd_pc' = "parsing"
                    /\ timescale' = IF IsNone(unit) THEN DefaultTimescale
                                    ELSE Get(unit)
      ]_vars

\* C24: a signal created by a declaration is never deleted or replaced, and
\* its last_value, once a value change has set it, is never None again: no
\* step, a second declaration of the same code included, removes the entry
\* of a code, changes its name, type or size, or resets its last_value.
C24_SignalsPersist ==
    [][ \A code \in DOMAIN signals :
            /\ code \in DOMAIN signals'
            /\ signals'[code].name = signals[code].name
            /\ signals'[code].type = signals[code].type
            /\ signals'[code].size = signals[code].size
            /\ ~IsNone(signals[code].last_value) =>
                   ~IsNone(signals'[code].last_value)
      ]_vars

\* C25: value changes are taken only inside the value-change section, which
\* opens with the first timestamp parsed and never closes: as long as no
\* timestamp has been parsed no signal has a last value and nothing is
\* counted, and no step leaves the section.
C25_ChangesOnlyInDumpSection ==
    [][ /\ in_dump_section' <=> stamps' # {}
        /\ ~in_dump_section' =>
               /\ transitions' = EmptyDict
               /\ \A code \in DOMAIN signals' :
                      IsNone(signals'[code].last_value)
        /\ in_dump_section => in_dump_section'
      ]_vars

\* two signals are declared and a further line was read, and no timestamp
\* has been parsed
C25_Witness ==
    /\ ~in_dump_section
    /\ DOMAIN signals = {CodeA, CodeB}
    /\ line_num = 3
    /\ vcd_pc = "parsed"

\* ------------------------------------------------------------------------
\* Claims about the ranges and the order of the scores
\* ------------------------------------------------------------------------

\* every count of the data is an integer that is not negative
AllCountsNatural ==
    \A i \in 1..Len(transition_data) :
        /\ IsNumber(transition_data[i].count)
        /\ Get(transition_data[i].count) >= 0

\* 0 <= x <= 100
InPercentRange(x) ==
    /\ ~RatLess(x, RatOfInt(0))
    /\ ~RatLess(RatOfInt(100), x)

\* C26: for data whose counts are all non-negative integers, every
\* candidate has trojan_probability in [0, 100] and percentage_of_avg in
\* [0, 100]: the count of a suspicious signal never exceeds the average.
C26_ScoresInRange ==
    (Analyzed /\ AllCountsNatural) =>
        \A k \in 1..Len(trojan_candidates) :
            /\ InPercentRange(trojan_candidates[k].trojan_probability)
            /\ InPercentRange(trojan_candidates[k].percentage_of_avg)

\* C27: one run of identify_suspicious_signals finds at most
\* floor(N * P / 100) suspicious signals, N being the number of signals
\* with a positive numeric count; with the default percentile and fewer
\* than 10 such signals it finds none.
C27_AtMostThresholdIndex ==
    (Identified /\ runs = 1) =>
        LET N == Cardinality(PositivePositions)
        IN  /\ Len(suspicious_signals) <= (N * threshold_percentile) \div 100
            /\ (threshold_percentile = DefaultPercentile /\ N < 10) =>
                   suspicious_signals = <<>>

\* three positive counts at percentile 90: the index is 2 and the two
\* counts below the largest are suspicious
C27_Witness ==
    /\ det_pc = "identified"
    /\ runs = 1
    /\ threshold_percentile = 90
    /\ Cardinality(PositivePositions) = 3
    /\ Len(suspicious_signals) = 2

\* the rank of a risk level, the most severe highest
Severity(level) ==
    CASE level = "CRITICAL" -> 3
      [] level = "HIGH" -> 2
      [] level = "MEDIUM" -> 1
      [] level = "LOW" -> 0

\* C28: when the average is positive, the final candidate list is in
\* non-decreasing order of transition count, and its risk levels never get
\* more severe along the list.
C28_CountAndRiskOrder ==
    (Analyzed /\ runs = 1 /\ ~IsNone(avg_transitions)
        /\ RatLess(RatOfInt(0), Get(avg_transitions))) =>
        \A i, j \in 1..Len(trojan_candidates) :
            i < j =>
                /\ trojan_candidates[i].transitions
                       <= trojan_candidates[j].transitions
                /\ Severity(trojan_candidates[i].risk_level)
                       >= Severity(trojan_candidates[j].risk_level)

\* two candidates were ranked: the one with fewer transitions comes first
\* and has the more severe level
C28_Witness ==
    /\ det_pc = "analyzed"
    /\ runs = 1
    /\ ~IsNone(avg_transitions)
    /\ RatLess(RatOfInt(0), Get(avg_transitions))
    /\ Len(trojan_candidates) = 2
    /\ trojan_candidates[1].transitions < trojan_candidates[2].transitions
    /\ trojan_candidates[1].risk_level # trojan_candidates[2].risk_level

====
